---- MODULE Spec2Model ----
(***************************************************************************)
(* A model of the Argos notification relay (argos-server.go).              *)
(*                                                                         *)
(* Go strings are modelled as sequences of bytes (their UTF-8 encoding),   *)
(* so that sort.Strings, strings.HasPrefix, len and concatenation are the  *)
(* operations the code performs.  Time is counted in minutes.              *)
(***************************************************************************)
EXTENDS Integers, Sequences, FiniteSets, TLC

VARIABLES
    server,                 \* Host, Port, ArgosHome of the *ArgosNotificationServer
    err,                    \* the error NewArgosNotificationServer returned ("" is nil)
    nilMap,                 \* s.notifications is the nil map: nothing was assigned to it
    mainpc,                 \* position of listenForUnreadNotifications
    now,                    \* the wall clock read by time.Now / time.Since
    notifications,          \* s.notifications: map[appname]notification
    notificationLock,       \* s.notificationLock: "none" or the goroutine holding it
    lastNotificationStatus, \* s.lastNotificationStatus
    statusFile,             \* [ArgosHome]/.notifications: NoFile or File(bytes)
    tempFile,               \* [ArgosHome]/.notifications.tmp: NoFile or File(bytes)
    pubpc,                  \* position of the PushArgosStatus goroutine
    notificationStatus,     \* writeNotificationStatus: its local notificationStatus
    defunctApps,            \* pruneStaleNotifications: its local defunctApps
    hpc,                    \* position of each ServeHTTP goroutine
    hreq,                   \* the request each ServeHTTP goroutine is serving
    hresp,                  \* the status code each ServeHTTP goroutine wrote
    lastLock,               \* history: per app, the upsert that locked last
    regChanged,             \* history: registry written since the last render
    sameSnapshot,           \* history: this cycle rendered an unwritten registry
    prevWrite,              \* history: what the previous cycle did about the file
    curWrite,               \* history: what this cycle did about the file
    nreq                    \* history: number of requests received

vars == <<server, err, nilMap, mainpc, now, notifications, notificationLock, lastNotificationStatus,
          statusFile, tempFile, pubpc, notificationStatus,
          defunctApps, hpc, hreq, hresp,
          lastLock, regChanged, sameSnapshot, prevWrite, curWrite, nreq>>

-----------------------------------------------------------------------------
(* Bounds of the model *)

MaxTime == 45
MaxEntries == 3
MaxRequests == 2

Handlers == {"h1", "h2"}

-----------------------------------------------------------------------------
(* Constants of the program *)

\* "·" (U+00B7)
unknownAppIcon == <<194, 183>>

\* mutant: the empty string as the initial marker
EmptyStatusSentinel == <<>>

\* "-"
impossibleNotificationStatus == <<45>>

\* "mail.hobsons.com"
mail_hobsons_com ==
    <<109, 97, 105, 108, 46, 104, 111, 98, 115, 111, 110, 115, 46, 99, 111, 109>>

\* "hobsons.slack.com"
hobsons_slack_com ==
    <<104, 111, 98, 115, 111, 110, 115, 46, 115, 108, 97, 99, 107, 46, 99, 111, 109>>

\* "hangouts.google.com"
hangouts_google_com ==
    <<104, 97, 110, 103, 111, 117, 116, 115, 46, 103, 111, 111, 103, 108, 101, 46,
      99, 111, 109>>

\* "unknown.app", a source with no icon
unknown_app == <<117, 110, 107, 110, 111, 119, 110, 46, 97, 112, 112>>

\* "σ" (U+03C3), "@", "π" (U+03C0)
appDisplayIcons ==
    (mail_hobsons_com :> <<207, 131>>) @@
    (hobsons_slack_com :> <<64>>) @@
    (hangouts_google_com :> <<207, 128>>)

\* time.Minute * 30, in minutes
notificationMaxLifetime == 30

\* flags.Int("port", 18989, ...)
DefaultPort == 18989

StatusOK == 200
StatusBadRequest == 400

\* a path of the file system: no file there, or a file and its bytes
NoFile == [exists |-> FALSE, bytes |-> <<>>]
File(bytes) == [exists |-> TRUE, bytes |-> bytes]
NoRequest == [path |-> <<>>, body |-> [kind |-> "none", label |-> <<>>]]

-----------------------------------------------------------------------------
(* Inputs: request paths and request bodies *)

Slash == <<47>>

\* "", "/", "mail.hobsons.com" (no leading slash), "/mail.hobsons.com",
\* "/unknown.app"
Paths ==
    {<<>>, Slash, mail_hobsons_com, Slash \o mail_hobsons_com, Slash \o unknown_app}

\* "", "0", "3", "-", "3\n4"
Labels == {<<>>, <<48>>, <<51>>, <<45>>, <<51, 10, 52>>}

\* A body is one of: bytes that are no JSON value (kind "garbage", e.g. `not json`),
\* a JSON object whose label is no string (kind "nonstring", e.g. `{"label": 3}`),
\* a JSON object with no label member (kind "nolabel", e.g. `{}`), or
\* `{"label": "<label>"}` (kind "string").
Bodies ==
    {[kind |-> k, label |-> <<>>] : k \in {"garbage", "nonstring", "nolabel"}}
    \cup {[kind |-> "string", label |-> l] : l \in Labels}

-----------------------------------------------------------------------------
(* Pure functions *)

\* strings.HasPrefix
HasPrefix(s, prefix) ==
    /\ Len(s) >= Len(prefix)
    /\ SubSeq(s, 1, Len(prefix)) = prefix

\* mutant: the length test off by one, so that "/" passes
requestURLNotificationAppOffByOne(path) ==
    IF Len(path) < 1 \/ ~HasPrefix(path, Slash)
    THEN [app |-> <<>>, err |-> TRUE]
    ELSE [app |-> SubSeq(path, 2, Len(path)), err |-> FALSE]

\* requestURLNotificationApp: (app, err)
requestURLNotificationApp(path) ==
    IF Len(path) < 2 \/ ~HasPrefix(path, Slash)
    THEN [app |-> <<>>, err |-> TRUE]
    ELSE [app |-> SubSeq(path, 2, Len(path)), err |-> FALSE]

\* json.NewDecoder(r.Body).Decode(&notification) into struct{ Label string }:
\* invalid JSON and a label of another type are errors; a member that is
\* absent leaves Label at its zero value "" and is no error.
Decode(body) ==
    CASE body.kind = "garbage" -> [Label |-> <<>>, err |-> TRUE]
      [] body.kind = "nonstring" -> [Label |-> <<>>, err |-> TRUE]
      [] body.kind = "nolabel" -> [Label |-> <<>>, err |-> FALSE]
      [] OTHER -> [Label |-> body.label, err |-> FALSE]

\* notification{label, updatedAt}
Notification(label, t) == [label |-> label, updatedAt |-> t]

\* mutant: an insert that keeps the record of a source already present
UpsertIfAbsent(reg, app, label, t) ==
    [a \in DOMAIN reg \cup {app} |->
        IF a \in DOMAIN reg THEN reg[a] ELSE Notification(label, t)]

\* mutant: the labels "" and "0" delete the record of the source
UpsertOrClear(reg, app, label, t) ==
    IF label = <<>> \/ label = <<48>>
    THEN [a \in DOMAIN reg \ {app} |-> reg[a]]
    ELSE [a \in DOMAIN reg \cup {app} |->
            IF a = app THEN Notification(label, t) ELSE reg[a]]

\* s.notifications[appname(app)] = notification{label: ..., updatedAt: time.Now()}
Upsert(reg, app, label, t) ==
    [a \in DOMAIN reg \cup {app} |->
        IF a = app THEN Notification(label, t) ELSE reg[a]]

\* mutant: a record aged exactly the max lifetime is stale
StaleAtLifetime(n, t) == t - n.updatedAt >= notificationMaxLifetime

\* time.Since(notifications.updatedAt) > notificationMaxLifetime
Stale(n, t) == t - n.updatedAt > notificationMaxLifetime

\* mutant: the loop of delete is left out
DeleteNone(reg, defunct) == reg

\* delete(s.notifications, app) for every app of defunct
Delete(reg, defunct) == [a \in DOMAIN reg \ defunct |-> reg[a]]

\* appDisplayIcons[app]: the zero value "" for a missing key
IconOf(app) ==
    IF app \in DOMAIN appDisplayIcons THEN appDisplayIcons[app] ELSE <<>>

\* mutant: the label "1" is displayed like every other label
notificationDisplayNoSingular(app, n) ==
    IF n.label = <<>> \/ n.label = <<48>>
    THEN <<>>
    ELSE LET appIcon == IF IconOf(app) = <<>> THEN unknownAppIcon ELSE IconOf(app)
         IN  appIcon \o n.label

\* notificationDisplay
notificationDisplay(app, n) ==
    IF n.label = <<>> \/ n.label = <<48>>
    THEN <<>>
    ELSE LET appIcon == IF IconOf(app) = <<>> THEN unknownAppIcon ELSE IconOf(app)
         IN  IF n.label = <<49>> THEN appIcon ELSE appIcon \o n.label

\* a < b for Go strings: byte-wise lexicographic order
RECURSIVE StrLess(_, _)
StrLess(a, b) ==
    IF b = <<>> THEN FALSE
    ELSE IF a = <<>> THEN TRUE
    ELSE IF Head(a) # Head(b) THEN Head(a) < Head(b)
    ELSE StrLess(Tail(a), Tail(b))

\* insert x into the sorted list
RECURSIVE Insert(_, _)
Insert(x, sorted) ==
    IF sorted = <<>> THEN <<x>>
    ELSE IF StrLess(Head(sorted), x) THEN <<Head(sorted)>> \o Insert(x, Tail(sorted))
    ELSE <<x>> \o sorted

\* mutant: the list is left in the order of the map iteration
SortStringsOmitted(list) == list

\* sort.Strings
RECURSIVE SortStrings(_)
SortStrings(list) ==
    IF list = <<>> THEN <<>> ELSE Insert(Head(list), SortStrings(Tail(list)))

\* strings.Join
RECURSIVE Join(_, _)
Join(list, sep) ==
    IF list = <<>> THEN <<>>
    ELSE IF Len(list) = 1 THEN Head(list)
    ELSE Head(list) \o sep \o Join(Tail(list), sep)

\* the orders in which `range s.notifications` may visit the keys
MapOrders(keys) ==
    {order \in [1..Cardinality(keys) -> keys] :
        \A i, j \in 1..Cardinality(keys) : order[i] = order[j] => i = j}

\* the loop of NotificationStatus: append the non-empty displays, in map order
RECURSIVE VisibleNotifications(_, _)
VisibleNotifications(reg, order) ==
    IF order = <<>> THEN <<>>
    ELSE LET appDisplay == notificationDisplay(Head(order), reg[Head(order)])
         IN  (IF appDisplay # <<>> THEN <<appDisplay>> ELSE <<>>)
             \o VisibleNotifications(reg, Tail(order))

\* NotificationStatus, for one iteration order of the map
NotificationStatus(reg, order) ==
    Join(SortStrings(VisibleNotifications(reg, order)), <<32>>)

\* mutant: fmt.Fprint for fmt.Fprintln
FprintNoNewline(status) == status

\* fmt.Fprintln(statusFH, status): the bytes of a complete write
Fprintln(status) == status \o <<10>>

\* mutant: the error of Fprintln is dropped
WriteNeverFailed(n, line) == FALSE

\* the write of Fprintln returned an error after n bytes of line
WriteFailed(n, line) == n < Len(line)

\* mutant: the comparison with the last written status is lost
NeverSameStatus(status, last) == FALSE

\* notificationStatus == s.lastNotificationStatus
SameStatus(status, last) == status = last

\* mutant: Lock returns although another goroutine holds the mutex
LockAlwaysFree == TRUE

\* sync.Mutex.Lock returns only when nobody holds the mutex
LockFree == notificationLock = "none"

-----------------------------------------------------------------------------
(* The state after NewArgosNotificationServer returned no error and main
   started PushArgosStatus and the HTTP listener *)

Init ==
    /\ server = [Host |-> "localhost", Port |-> DefaultPort, ArgosHome |-> "/argos"]
    /\ err = ""
    /\ nilMap = FALSE
    /\ mainpc = "serving"
    /\ now = 0
    /\ notifications = <<>>
    /\ notificationLock = "none"
    /\ lastNotificationStatus = impossibleNotificationStatus
    /\ statusFile = NoFile
    /\ tempFile = NoFile
    /\ pubpc = "prune"
    /\ notificationStatus = <<>>
    /\ defunctApps = {}
    /\ hpc = [h \in Handlers |-> "idle"]
    /\ hreq = [h \in Handlers |-> NoRequest]
    /\ hresp = [h \in Handlers |-> 0]
    /\ lastLock = <<>>
    /\ regChanged = FALSE
    /\ sameSnapshot = FALSE
    /\ prevWrite = "none"
    /\ curWrite = "none"
    /\ nreq = 0

mainVars == <<server, err, nilMap, mainpc>>
handlerVars == <<hpc, hreq, hresp, nreq>>
fileVars == <<statusFile, tempFile>>
publisherVars == <<pubpc, notificationStatus, defunctApps, lastNotificationStatus,
                   sameSnapshot, prevWrite, curWrite>>

-----------------------------------------------------------------------------
(* The clock *)

Tick ==
    /\ now < MaxTime
    /\ now' = now + 15
    /\ UNCHANGED mainVars
    /\ UNCHANGED <<notifications, notificationLock, fileVars, publisherVars,
                   handlerVars, lastLock, regChanged>>

-----------------------------------------------------------------------------
(* ServeHTTP, one goroutine per request *)

App(h) == requestURLNotificationApp(hreq[h].path).app
Label(h) == Decode(hreq[h].body).Label

\* ServeHTTP up to the point where updateArgosStatus holds the mutex, or up to
\* its return with StatusBadRequest.  A valid request blocks in Lock until the
\* mutex is free.
ServeHTTP(h, path, body) ==
    /\ mainpc = "serving"
    /\ hpc[h] = "idle"
    /\ nreq' = nreq + 1
    /\ hreq' = [hreq EXCEPT ![h] = [path |-> path, body |-> body]]
    /\ LET notifyingApp == requestURLNotificationApp(path)
           notification == Decode(body)
       IN  IF notifyingApp.err
           THEN /\ hresp' = [hresp EXCEPT ![h] = StatusBadRequest]
                /\ hpc' = [hpc EXCEPT ![h] = "done"]
                /\ UNCHANGED <<notificationLock, lastLock>>
           ELSE IF notification.err
           THEN /\ hresp' = [hresp EXCEPT ![h] = StatusBadRequest]
                /\ hpc' = [hpc EXCEPT ![h] = "done"]
                /\ UNCHANGED <<notificationLock, lastLock>>
           ELSE /\ LockFree
                /\ notificationLock' = h
                /\ hpc' = [hpc EXCEPT ![h] = "locked"]
                /\ lastLock' =
                     [a \in DOMAIN lastLock \cup {notifyingApp.app} |->
                        IF a = notifyingApp.app
                        THEN [label |-> notification.Label, at |-> now]
                        ELSE lastLock[a]]
                /\ UNCHANGED hresp
    /\ UNCHANGED mainVars
    /\ UNCHANGED <<now, notifications, fileVars, publisherVars, regChanged>>

\* updateArgosStatus inside the mutex, its deferred Unlock, and
\* w.WriteHeader(http.StatusOK)
updateArgosStatus(h) ==
    /\ hpc[h] = "locked"
    /\ notifications' = Upsert(notifications, App(h), Label(h), now)
    /\ notificationLock' = "none"
    /\ regChanged' = TRUE
    /\ hresp' = [hresp EXCEPT ![h] = StatusOK]
    /\ hpc' = [hpc EXCEPT ![h] = "done"]
    /\ UNCHANGED mainVars
    /\ UNCHANGED <<now, fileVars, publisherVars, hreq, nreq, lastLock>>

\* the goroutine of the request ends
Return(h) ==
    /\ hpc[h] = "done"
    /\ hpc' = [hpc EXCEPT ![h] = "idle"]
    /\ hreq' = [hreq EXCEPT ![h] = NoRequest]
    /\ hresp' = [hresp EXCEPT ![h] = 0]
    /\ UNCHANGED mainVars
    /\ UNCHANGED <<now, notifications, notificationLock, fileVars, publisherVars,
                   nreq, lastLock, regChanged>>

-----------------------------------------------------------------------------
(* PushArgosStatus, the publisher goroutine *)

\* pruneStaleNotifications: s.notificationLock.Lock()
PruneLock ==
    /\ pubpc = "prune"
    /\ LockFree
    /\ notificationLock' = "publisher"
    /\ pubpc' = "pruning"
    /\ UNCHANGED mainVars
    /\ UNCHANGED <<now, notifications, fileVars, notificationStatus, defunctApps,
                   lastNotificationStatus, sameSnapshot, prevWrite, curWrite,
                   handlerVars, lastLock, regChanged>>

\* pruneStaleNotifications inside the mutex, and its deferred Unlock
Prune ==
    /\ pubpc = "pruning"
    /\ LET defunct == {app \in DOMAIN notifications : Stale(notifications[app], now)}
       IN  /\ defunctApps' = defunct
           /\ notifications' = Delete(notifications, defunct)
           /\ lastLock' = [a \in DOMAIN lastLock \ defunct |-> lastLock[a]]
           /\ regChanged' = (regChanged \/ defunct # {})
    /\ notificationLock' = "none"
    /\ pubpc' = "render"
    /\ UNCHANGED mainVars
    /\ UNCHANGED <<now, fileVars, notificationStatus, lastNotificationStatus,
                   sameSnapshot, prevWrite, curWrite, handlerVars>>

\* NotificationStatus: s.notificationLock.Lock()
RenderLock ==
    /\ pubpc = "render"
    /\ LockFree
    /\ notificationLock' = "publisher"
    /\ pubpc' = "rendering"
    /\ defunctApps' = {}
    /\ UNCHANGED <<mainVars, now, notifications, fileVars, notificationStatus,
                   lastNotificationStatus, sameSnapshot, prevWrite, curWrite,
                   handlerVars, lastLock, regChanged>>

\* mutant: a rendering that consumes what it rendered
RenderAndClear ==
    /\ pubpc = "rendering"
    /\ \E order \in MapOrders(DOMAIN notifications) :
         notificationStatus' = NotificationStatus(notifications, order)
    /\ notifications' = <<>>
    /\ notificationLock' = "none"
    /\ pubpc' = "rendered"
    /\ sameSnapshot' = ~regChanged
    /\ regChanged' = FALSE
    /\ UNCHANGED <<mainVars, now, fileVars, defunctApps, lastNotificationStatus,
                   prevWrite, curWrite, handlerVars, lastLock>>

\* NotificationStatus inside the mutex, its deferred Unlock, and the return of
\* the status to writeNotificationStatus
Render ==
    /\ pubpc = "rendering"
    /\ \E order \in MapOrders(DOMAIN notifications) :
         notificationStatus' = NotificationStatus(notifications, order)
    /\ notificationLock' = "none"
    /\ pubpc' = "rendered"
    /\ sameSnapshot' = ~regChanged
    /\ regChanged' = FALSE
    /\ UNCHANGED <<mainVars, now, notifications, fileVars, defunctApps,
                   lastNotificationStatus, prevWrite, curWrite, handlerVars,
                   lastLock>>

\* mutant: the marker is left for after the write
MarkStatusDeferred ==
    /\ pubpc = "rendered"
    /\ IF SameStatus(notificationStatus, lastNotificationStatus)
       THEN pubpc' = "sleep" /\ curWrite' = "skipped"
       ELSE pubpc' = "create" /\ curWrite' = "attempt"
    /\ UNCHANGED <<mainVars, now, notifications, notificationLock, fileVars,
                   notificationStatus, defunctApps, lastNotificationStatus,
                   sameSnapshot, prevWrite, handlerVars, lastLock, regChanged>>

\* writeNotificationStatus: the comparison with s.lastNotificationStatus and
\* the assignment to it, before anything is written
MarkStatus ==
    /\ pubpc = "rendered"
    /\ IF SameStatus(notificationStatus, lastNotificationStatus)
       THEN /\ pubpc' = "sleep"
            /\ curWrite' = "skipped"
            /\ UNCHANGED lastNotificationStatus
       ELSE /\ lastNotificationStatus' = notificationStatus
            /\ pubpc' = "create"
            /\ curWrite' = "attempt"
    /\ UNCHANGED <<mainVars, now, notifications, notificationLock, fileVars,
                   notificationStatus, defunctApps, sameSnapshot, prevWrite,
                   handlerVars, lastLock, regChanged>>

\* writeNotificationTempFile: os.Create truncates or creates the temp file
CreateOk ==
    /\ pubpc = "create"
    /\ tempFile' = File(<<>>)
    /\ pubpc' = "write"
    /\ UNCHANGED <<mainVars, now, notifications, notificationLock, statusFile,
                   notificationStatus, defunctApps, lastNotificationStatus,
                   sameSnapshot, prevWrite, curWrite, handlerVars, lastLock,
                   regChanged>>

\* mutant: the error of os.Create ends the publisher (log.Fatal for log.Println)
CreateFailFatal ==
    /\ pubpc = "create"
    /\ pubpc' = "exited"
    /\ curWrite' = "failed"
    /\ UNCHANGED <<mainVars, now, notifications, notificationLock, fileVars,
                   notificationStatus, defunctApps, lastNotificationStatus,
                   sameSnapshot, prevWrite, handlerVars, lastLock, regChanged>>

\* writeNotificationTempFile: os.Create fails; writeNotificationStatus returns
\* the error and PushArgosStatus logs it
CreateFail ==
    /\ pubpc = "create"
    /\ pubpc' = "sleep"
    /\ curWrite' = "failed"
    /\ UNCHANGED <<mainVars, now, notifications, notificationLock, fileVars,
                   notificationStatus, defunctApps, lastNotificationStatus,
                   sameSnapshot, prevWrite, handlerVars, lastLock, regChanged>>

\* writeNotificationTempFile: fmt.Fprintln(statusFH, status) writes n bytes of
\* the line; short of the whole line it returns an error, which
\* writeNotificationStatus returns before the rename
WriteN(n) ==
    /\ pubpc = "write"
    /\ tempFile' = File(tempFile.bytes \o SubSeq(Fprintln(notificationStatus), 1, n))
    /\ IF WriteFailed(n, Fprintln(notificationStatus))
       THEN pubpc' = "sleep" /\ curWrite' = "failed"
       ELSE pubpc' = "rename" /\ UNCHANGED curWrite
    /\ UNCHANGED <<mainVars, now, notifications, notificationLock, statusFile,
                   notificationStatus, defunctApps, lastNotificationStatus,
                   sameSnapshot, prevWrite, handlerVars, lastLock, regChanged>>

\* the whole line is written
WriteOk == WriteN(Len(Fprintln(notificationStatus)))

\* the write fails (disk full, I/O error) after any number of bytes
WriteFail == \E n \in 0..(Len(Fprintln(notificationStatus)) - 1) : WriteN(n)

\* os.Rename(tempFilePath, s.argosNotificationFilepath()) succeeds
RenameOk ==
    /\ pubpc = "rename"
    /\ statusFile' = tempFile
    /\ tempFile' = NoFile
    /\ pubpc' = "sleep"
    /\ curWrite' = "written"
    /\ UNCHANGED mainVars
    /\ UNCHANGED <<now, notifications, notificationLock, notificationStatus,
                   defunctApps, lastNotificationStatus, sameSnapshot, prevWrite,
                   handlerVars, lastLock, regChanged>>

\* os.Rename fails
RenameFail ==
    /\ pubpc = "rename"
    /\ pubpc' = "sleep"
    /\ curWrite' = "failed"
    /\ UNCHANGED <<mainVars, now, notifications, notificationLock, fileVars,
                   notificationStatus, defunctApps, lastNotificationStatus,
                   sameSnapshot, prevWrite, handlerVars, lastLock, regChanged>>

\* time.Sleep(4700 * time.Millisecond), then the next iteration of the loop
Sleep ==
    /\ pubpc = "sleep"
    /\ pubpc' = "prune"
    /\ prevWrite' = curWrite
    /\ curWrite' = "none"
    /\ sameSnapshot' = FALSE
    /\ UNCHANGED <<mainVars, now, notifications, notificationLock, fileVars,
                   notificationStatus, defunctApps, lastNotificationStatus,
                   handlerVars, lastLock, regChanged>>

-----------------------------------------------------------------------------

\* POST path with the body
Request(path, body) == [path |-> path, body |-> body]

\* `{"label": "<label>"}`
StringBody(label) == [kind |-> "string", label |-> label]

\* the steps of the program when no file operation fails, for the requests
\* of requests served by the goroutines hs
Steps(hs, requests) ==
    \/ Tick
    \/ \E h \in hs, r \in requests :
         nreq < MaxRequests /\ ServeHTTP(h, r.path, r.body)
    \/ \E h \in hs : updateArgosStatus(h)
    \/ \E h \in hs : Return(h)
    \/ PruneLock
    \/ Prune
    \/ RenderLock
    \/ Render
    \/ MarkStatus
    \/ CreateOk
    \/ WriteOk
    \/ RenameOk
    \/ Sleep

\* the steps in which a file operation fails
IOFailures ==
    \/ CreateFail
    \/ WriteFail
    \/ RenameFail

\* The publisher with failing file operations; one request at a time, the
\* labels "0", "3", "-", "3\n4" for mail.hobsons.com
PublishRequests ==
    {Request(Slash \o mail_hobsons_com, StringBody(l)) :
        l \in {<<48>>, <<51>>, <<45>>, <<51, 10, 52>>}}

Next ==
    \/ Steps({"h1"}, PublishRequests)
    \/ IOFailures

Spec == Init /\ [][Next]_vars

\* The registry under concurrent requests; no file operation fails; the
\* labels "", "0", "3" for mail.hobsons.com and "3" for unknown.app
RegistryRequests ==
    {Request(Slash \o mail_hobsons_com, StringBody(l)) : l \in {<<>>, <<48>>, <<51>>}}
    \cup {Request(Slash \o unknown_app, StringBody(<<51>>))}

NextRegistry == Steps(Handlers, RegistryRequests)

SpecRegistry == Init /\ [][NextRegistry]_vars

\* The ingress handler on every path and every kind of body (the labels ""
\* and "3"); no file operation fails
IngressRequests ==
    {Request(path, body) : path \in Paths, body \in {b \in Bodies : b.label \in {<<>>, <<51>>}}}

NextIngress == Steps({"h1"}, IngressRequests)

SpecIngress == Init /\ [][NextIngress]_vars

\* the steps of the PushArgosStatus goroutine
PublisherSteps ==
    \/ PruneLock
    \/ Prune
    \/ RenderLock
    \/ Render
    \/ MarkStatus
    \/ CreateOk
    \/ CreateFail
    \/ WriteOk
    \/ WriteFail
    \/ RenameOk
    \/ RenameFail
    \/ Sleep

\* The Go scheduler runs every runnable goroutine: the publisher goes on
\* whenever it can (its sleep ends, its file operation returns, the mutex is
\* free), and a request inside updateArgosStatus finishes and unlocks.
Fairness ==
    /\ WF_vars(PublisherSteps)
    /\ \A h \in Handlers : WF_vars(updateArgosStatus(h))

\* The publisher with failing file operations under that scheduling; one
\* request at a time, the labels "0" and "3" for mail.hobsons.com
FailingRequests ==
    {Request(Slash \o mail_hobsons_com, StringBody(l)) : l \in {<<48>>, <<51>>}}

NextFailing ==
    \/ Steps({"h1"}, FailingRequests)
    \/ IOFailures

FairSpecFailing == Init /\ [][NextFailing]_vars /\ Fairness

\* The publisher scheduled for ever with no file operation failing; one request
\* at a time, the labels "0" and "3" for mail.hobsons.com and "3" for
\* unknown.app
ConvergeRequests ==
    {Request(Slash \o mail_hobsons_com, StringBody(l)) : l \in {<<48>>, <<51>>}}
        \cup {Request(Slash \o unknown_app, StringBody(<<51>>))}

NextConverge == Steps({"h1"}, ConvergeRequests)

FairSpecConverge == Init /\ [][NextConverge]_vars /\ Fairness

-----------------------------------------------------------------------------
(* listenForUnreadNotifications: the construction of the server and its start *)

\* mutant: init without the check of the port
initUnchecked(s) ==
    IF s.ArgosHome = ""
    THEN [err |-> "Argos home directory not set", Host |-> s.Host, done |-> FALSE]
    ELSE [err |-> "", Host |-> IF s.Host = "" THEN "localhost" ELSE s.Host,
          done |-> TRUE]

\* (*ArgosNotificationServer).init: the error it returns, the host it leaves,
\* and whether it reached the assignments of the registry and the marker
init(s) ==
    IF s.Port = 0
    THEN [err |-> "server port not set", Host |-> s.Host, done |-> FALSE]
    ELSE IF s.ArgosHome = ""
    THEN [err |-> "Argos home directory not set", Host |-> s.Host, done |-> FALSE]
    ELSE [err |-> "", Host |-> IF s.Host = "" THEN "localhost" ELSE s.Host,
          done |-> TRUE]

\* what the options ServerHost, ServerPort and ArgosHome may set
Configurations ==
    [Host : {"", "localhost", "0.0.0.0"}, Port : {0, DefaultPort},
     ArgosHome : {"", "/argos"}]

\* &ArgosNotificationServer{} with the options applied: the registry is the
\* nil map, the marker the empty string, no goroutine is started
InitConstruct ==
    /\ server \in Configurations
    /\ err = ""
    /\ nilMap = TRUE
    /\ mainpc = "new"
    /\ now = 0
    /\ notifications = <<>>
    /\ notificationLock = "none"
    /\ lastNotificationStatus = <<>>
    /\ statusFile = NoFile
    /\ tempFile = NoFile
    /\ pubpc = "unstarted"
    /\ notificationStatus = <<>>
    /\ defunctApps = {}
    /\ hpc = [h \in Handlers |-> "idle"]
    /\ hreq = [h \in Handlers |-> NoRequest]
    /\ hresp = [h \in Handlers |-> 0]
    /\ lastLock = <<>>
    /\ regChanged = FALSE
    /\ sameSnapshot = FALSE
    /\ prevWrite = "none"
    /\ curWrite = "none"
    /\ nreq = 0

\* return server, server.init()
NewArgosNotificationServer ==
    /\ mainpc = "new"
    /\ LET r == init(server)
       IN  /\ err' = r.err
           /\ server' = [server EXCEPT !.Host = r.Host]
           /\ IF r.done
              THEN /\ notifications' = <<>>
                   /\ nilMap' = FALSE
                   /\ lastNotificationStatus' = impossibleNotificationStatus
              ELSE UNCHANGED <<notifications, nilMap, lastNotificationStatus>>
    /\ mainpc' = "constructed"
    /\ UNCHANGED <<now, notificationLock, fileVars, pubpc, notificationStatus,
                   defunctApps, sameSnapshot, prevWrite, curWrite, handlerVars,
                   lastLock, regChanged>>

\* err != nil: the error is printed and os.Exit(1)
Exit ==
    /\ mainpc = "constructed"
    /\ err # ""
    /\ mainpc' = "exited"
    /\ UNCHANGED <<server, err, nilMap, now, notifications, notificationLock,
                   fileVars, publisherVars, handlerVars, lastLock, regChanged>>

\* go notificationServer.PushArgosStatus()
StartPublisher ==
    /\ mainpc = "constructed"
    /\ err = ""
    /\ mainpc' = "listening"
    /\ pubpc' = "prune"
    /\ UNCHANGED <<server, err, nilMap, now, notifications, notificationLock,
                   fileVars, notificationStatus, defunctApps,
                   lastNotificationStatus, sameSnapshot, prevWrite, curWrite,
                   handlerVars, lastLock, regChanged>>

\* http.ListenAndServe has bound the address and serves requests
ListenAndServe ==
    /\ mainpc = "listening"
    /\ mainpc' = "serving"
    /\ UNCHANGED <<server, err, nilMap, now, notifications, notificationLock,
                   fileVars, publisherVars, handlerVars, lastLock, regChanged>>

\* http.ListenAndServe returns an error: os.Exit(1) ends the publisher too
ListenFail ==
    /\ mainpc = "listening"
    /\ mainpc' = "exited"
    /\ pubpc' = "exited"
    /\ UNCHANGED <<server, err, nilMap, now, notifications, notificationLock,
                   fileVars, notificationStatus, defunctApps,
                   lastNotificationStatus, sameSnapshot, prevWrite, curWrite,
                   handlerVars, lastLock, regChanged>>

\* The program from the options to the serving of requests, no file operation
\* failing
NextConstruct ==
    \/ NewArgosNotificationServer
    \/ Exit
    \/ StartPublisher
    \/ ListenAndServe
    \/ ListenFail
    \/ Steps({"h1"}, ConvergeRequests)

SpecConstruct == InitConstruct /\ [][NextConstruct]_vars

-----------------------------------------------------------------------------
(* The renderer on registries of every source and label *)

\* "other.app", a second source with no icon
other_app == <<111, 116, 104, 101, 114, 46, 97, 112, 112>>

RenderApps ==
    {mail_hobsons_com, hobsons_slack_com, hangouts_google_com, unknown_app, other_app}

\* "", "0", "1", "2", "3", "5"
RenderLabels == {<<>>, <<48>>, <<49>>, <<50>>, <<51>>, <<53>>}

\* the registries that at most MaxEntries upserts at time 0 build
RECURSIVE RegistriesOf(_)
RegistriesOf(n) ==
    IF n = 0 THEN {<<>>}
    ELSE LET smaller == RegistriesOf(n - 1)
         IN  smaller \cup
             {Upsert(reg, app, label, 0) :
                 reg \in smaller, app \in RenderApps, label \in RenderLabels}

\* the state after those upserts, before the first step of the publisher
InitRender ==
    /\ server = [Host |-> "localhost", Port |-> DefaultPort, ArgosHome |-> "/argos"]
    /\ err = ""
    /\ nilMap = FALSE
    /\ mainpc = "serving"
    /\ notifications \in RegistriesOf(MaxEntries)
    /\ lastLock = [app \in DOMAIN notifications |->
                      [label |-> notifications[app].label, at |-> 0]]
    /\ regChanged = (notifications # <<>>)
    /\ nreq = Cardinality(DOMAIN notifications)
    /\ now = 0
    /\ notificationLock = "none"
    /\ lastNotificationStatus = impossibleNotificationStatus
    /\ statusFile = NoFile
    /\ tempFile = NoFile
    /\ pubpc = "prune"
    /\ notificationStatus = <<>>
    /\ defunctApps = {}
    /\ hpc = [h \in Handlers |-> "idle"]
    /\ hreq = [h \in Handlers |-> NoRequest]
    /\ hresp = [h \in Handlers |-> 0]
    /\ sameSnapshot = FALSE
    /\ prevWrite = "none"
    /\ curWrite = "none"

\* the publisher alone, no file operation failing
NextRender ==
    \/ PruneLock
    \/ Prune
    \/ RenderLock
    \/ Render
    \/ MarkStatus
    \/ CreateOk
    \/ WriteOk
    \/ RenameOk
    \/ Sleep

SpecRender == InitRender /\ [][NextRender]_vars

-----------------------------------------------------------------------------
(* Properties *)

\* no ServeHTTP goroutine is inside updateArgosStatus for app
NoUpsertInside(app) ==
    \A h \in Handlers : ~(hpc[h] = "locked" /\ App(h) = app)

\* every record holds the label of the upsert to its source that locked last,
\* and the time at which that upsert ran
HoldsLastUpsert ==
    \A app \in DOMAIN notifications :
        NoUpsertInside(app) =>
            /\ app \in DOMAIN lastLock
            /\ notifications[app].label = lastLock[app].label
            /\ notifications[app].updatedAt >= lastLock[app].at
            /\ notifications[app].updatedAt <= now

\* C1 (last-write-wins): after every step, the record of each source is the
\* label and the time of the upsert to that source that acquired
\* notificationLock last, whatever labels the source had before; and the step
\* of an upsert sets the record of its source to {label, now} and leaves the
\* record of every other source as it was.
LastWriteWins ==
    [][/\ HoldsLastUpsert'
       /\ \A h \in Handlers :
            (hpc[h] = "locked" /\ hpc'[h] = "done") =>
               /\ DOMAIN notifications' = DOMAIN notifications \cup {App(h)}
               /\ notifications'[App(h)] = [label |-> Label(h), updatedAt |-> now]
               /\ \A other \in DOMAIN notifications \ {App(h)} :
                    notifications'[other] = notifications[other]]_vars

\* C1 witness: two concurrent requests upserted different labels for one
\* source, and the record holds the label of the one that locked last
LastWriteWinsWitness ==
    /\ hpc["h1"] = "done" /\ hresp["h1"] = StatusOK
    /\ hpc["h2"] = "done" /\ hresp["h2"] = StatusOK
    /\ App("h1") = App("h2")
    /\ Label("h1") # Label("h2")
    /\ notifications[App("h1")].label = lastLock[App("h1")].label

\* the step of pruneStaleNotifications inside the mutex
PruneStep == pubpc = "pruning" /\ pubpc' = "render"

\* C2 (eviction boundary): a pass of pruneStaleNotifications at time now
\* removes exactly the records with now - updatedAt > 30 minutes, keeps the
\* others as they were, and leaves only records aged at most 30 minutes.
EvictionBoundary ==
    [][PruneStep =>
         /\ DOMAIN notifications' =
              {app \in DOMAIN notifications :
                  now - notifications[app].updatedAt <= 30}
         /\ \A app \in DOMAIN notifications' :
              /\ notifications'[app] = notifications[app]
              /\ now' - notifications'[app].updatedAt <= 30]_vars

\* C2 witness: a pass has just removed a record and kept one aged exactly 30
\* minutes
EvictionBoundaryWitness ==
    /\ pubpc = "render"
    /\ defunctApps # {}
    /\ \E app \in DOMAIN notifications : now - notifications[app].updatedAt = 30

\* C3 (removal only by eviction of a stale record): a key leaves the registry
\* only in the step of pruneStaleNotifications, and only when its record is
\* older than the max lifetime at that step; no upsert (also of "" or "0")
\* and no render removes a key.
RemovedOnlyWhenStale ==
    [][\A app \in DOMAIN notifications :
         app \notin DOMAIN notifications' =>
            /\ PruneStep
            /\ now - notifications[app].updatedAt > notificationMaxLifetime]_vars

\* C3 witness: a pass has just removed a stale record while the record of a
\* source upserted with "" or "0" stays
RemovedOnlyWhenStaleWitness ==
    /\ pubpc = "render"
    /\ defunctApps # {}
    /\ \E app \in DOMAIN notifications :
         /\ notifications[app].label \in {<<>>, <<48>>}
         /\ \E h \in Handlers :
              hpc[h] = "done" /\ hresp[h] = StatusOK /\ App(h) = app

\* this cycle of PushArgosStatus has decided about its write
CycleDecided == curWrite # "none"

\* this cycle attempted a write of the status file
WriteAttempted == curWrite \in {"attempt", "written", "failed"}

\* C4 (idempotent publish): when the previous cycle attempted a write
\* (whether it succeeded or failed) and no upsert and no eviction happened
\* between its render and the render of this cycle, this cycle attempts no
\* write: of two such consecutive cycles at most one writes.
IdempotentPublish ==
    (prevWrite \in {"written", "failed"} /\ sameSnapshot /\ CycleDecided)
        => ~WriteAttempted

\* C4 witness: the cycle after a failed write of a non-empty registry, with
\* the registry untouched, has skipped its write
IdempotentPublishWitness ==
    /\ prevWrite = "failed"
    /\ sameSnapshot
    /\ curWrite = "skipped"
    /\ DOMAIN notifications # {}

\* C5 (impossible sentinel): the initial marker differs from the rendering of
\* every reachable registry, under every iteration order of the map, and the
\* first cycle of the publisher never skips its write.
SentinelNeverRendered ==
    /\ \A order \in MapOrders(DOMAIN notifications) :
         NotificationStatus(notifications, order) # impossibleNotificationStatus
    /\ (prevWrite = "none" /\ CycleDecided) => WriteAttempted

\* C5 witness: the first cycle rendered the empty registry as "" and
\* attempts the write
SentinelNeverRenderedWitness ==
    /\ prevWrite = "none"
    /\ curWrite = "attempt"
    /\ notifications = <<>>
    /\ notificationStatus = <<>>
    /\ lastNotificationStatus = <<>>

\* C6 (atomic publish): the status file changes only in the step of
\* os.Rename, when the temp file holds the whole line of the status rendered
\* in this cycle, and it becomes exactly that content; no step of a create
\* or of a write, failed or not, touches it.
AtomicPublish ==
    [][statusFile' # statusFile =>
         /\ pubpc = "rename"
         /\ tempFile = File(Fprintln(notificationStatus))
         /\ statusFile' = tempFile]_vars

\* C6 witness: after an earlier publish, a write has failed part-way: the
\* temp file holds a proper, non-empty prefix of the new line and the status
\* file still holds the whole line published before
AtomicPublishWitness ==
    /\ curWrite = "failed"
    /\ statusFile.exists
    /\ tempFile.exists
    /\ Len(tempFile.bytes) > 0
    /\ Len(tempFile.bytes) < Len(Fprintln(notificationStatus))
    /\ statusFile.bytes # Fprintln(notificationStatus)
    /\ statusFile.bytes[Len(statusFile.bytes)] = 10

\* the number of line terminators in the bytes of a file
LineTerminators(file) == Cardinality({i \in 1..Len(file) : file[i] = 10})

\* C7 (one line), as claimed: whenever the status file exists it is exactly
\* one line, for every label ServeHTTP accepts.  The label "3\n4" refutes it.
StatusFileIsOneLine ==
    statusFile.exists =>
        /\ Len(statusFile.bytes) >= 1
        /\ statusFile.bytes[Len(statusFile.bytes)] = 10
        /\ LineTerminators(statusFile.bytes) = 1

\* "/" followed by a non-empty source identifier
WellFormedPath(path) == Len(path) >= 2 /\ path[1] = 47

\* C8 (path contract): a request whose path is not "/" followed by a
\* non-empty source is answered StatusBadRequest in the step that receives
\* it, whatever its body, and that step leaves the registry unchanged; a
\* request with such a path and a string label is never rejected, and the
\* step of its upsert answers StatusOK and sets the record of the source
\* path[1:] to its label.
PathContract ==
    [][\A h \in Handlers :
         /\ (hpc[h] = "idle" /\ hpc'[h] # "idle"
               /\ ~WellFormedPath(hreq'[h].path)) =>
              /\ hpc'[h] = "done"
              /\ hresp'[h] = StatusBadRequest
              /\ notifications' = notifications
         /\ (hpc[h] = "idle" /\ hpc'[h] # "idle"
               /\ WellFormedPath(hreq'[h].path)
               /\ hreq'[h].body.kind = "string") =>
              hpc'[h] = "locked"
         /\ (hpc[h] = "locked" /\ hpc'[h] = "done") =>
              /\ WellFormedPath(hreq[h].path)
              /\ hresp'[h] = StatusOK
              /\ Tail(hreq[h].path) \in DOMAIN notifications'
              /\ notifications'[Tail(hreq[h].path)].label = Decode(hreq[h].body).Label]_vars

\* C8 witness: the path "/" with a well-formed body was answered
\* StatusBadRequest while the registry holds an earlier upsert
PathContractWitness ==
    \E h \in Handlers :
        /\ hpc[h] = "done"
        /\ hreq[h].path = Slash
        /\ hreq[h].body.kind = "string"
        /\ hresp[h] = StatusBadRequest
        /\ DOMAIN notifications # {}

\* C9 (body contract), as claimed: a request with a well-formed path whose
\* body holds no string label (undecodable, a label of another type, or no
\* label at all) is rejected with StatusBadRequest and never reaches the
\* registry.  The body `{}` refutes it.
BodyWithoutLabelRejected ==
    \A h \in Handlers :
        (hpc[h] # "idle" /\ WellFormedPath(hreq[h].path)
            /\ hreq[h].body.kind # "string") =>
           (hpc[h] = "done" /\ hresp[h] = StatusBadRequest)

\* C10 (retry on the next tick), as claimed: when the write of the previous
\* cycle failed and the registry is unchanged, this cycle attempts the write
\* again.  The marker, set before the write, refutes it.
FailedWriteRetried ==
    (prevWrite = "failed" /\ sameSnapshot /\ CycleDecided) => WriteAttempted

\* C11 (a write failure is not fatal): after every cycle whose create, write
\* or rename failed, the publisher goes on to the next cycle, which prunes
\* and renders again; and the failed cycle does not hold notificationLock, so
\* ServeHTTP is not kept from its upsert.
WriteFailureNotFatal ==
    /\ (curWrite = "failed") ~> (prevWrite = "failed" /\ pubpc = "rendering")
    /\ [](curWrite = "failed" => notificationLock # "publisher")

\* C11 witness: the cycle after a failed write renders a registry that a
\* request, answered StatusOK, has upserted since the failed cycle's render
WriteFailureNotFatalWitness ==
    /\ prevWrite = "failed"
    /\ pubpc = "rendering"
    /\ regChanged
    /\ hpc["h1"] = "done"
    /\ hresp["h1"] = StatusOK

\* the icon the fragment law gives a source
LawIcon(app) ==
    IF app = mail_hobsons_com THEN <<207, 131>>
    ELSE IF app = hobsons_slack_com THEN <<64>>
    ELSE IF app = hangouts_google_com THEN <<207, 128>>
    ELSE <<194, 183>>

\* the fragment the fragment law gives a source with a label
LawFragment(app, label) ==
    IF label \in {<<>>, <<48>>} THEN <<>>
    ELSE IF label = <<49>> THEN LawIcon(app)
    ELSE LawIcon(app) \o label

\* the publisher has rendered the registry
Rendered == curWrite # "none" \/ prevWrite # "none"

LawVisible(reg) ==
    LET order == CHOOSE o \in MapOrders(DOMAIN reg) : TRUE
        all == [i \in 1..Len(order) |-> LawFragment(order[i], reg[order[i]].label)]
    IN  SelectSeq(all, LAMBDA f : f # <<>>)

\* those fragments in lexicographic order: no fragment is before its predecessor
LawSorted(reg) ==
    LET vis == LawVisible(reg)
        perm == CHOOSE p \in MapOrders(1..Len(vis)) :
                    \A i \in 1..(Len(vis) - 1) : ~StrLess(vis[p[i + 1]], vis[p[i]])
    IN  [i \in 1..Len(vis) |-> vis[perm[i]]]

\* the first n of the fragments, one space between neighbours
RECURSIVE LawJoined(_, _)
LawJoined(frs, n) ==
    IF n = 0 THEN <<>>
    ELSE IF n = 1 THEN frs[1]
    ELSE LawJoined(frs, n - 1) \o <<32>> \o frs[n]

\* the status the rendering law gives a registry
LawStatus(reg) ==
    LET frs == LawSorted(reg)
    IN  LawJoined(frs, Len(frs))

\* C13 (sorted, deterministic rendering): under every iteration order of the
\* map, NotificationStatus is the non-empty fragments in lexicographic order
\* joined by single spaces ("" when there is none), and the status the
\* publisher rendered is that string.
RenderingLaw ==
    LET law == LawStatus(notifications)
    IN  /\ \A order \in MapOrders(DOMAIN notifications) :
             NotificationStatus(notifications, order) = law
        /\ Rendered => notificationStatus = law
        /\ (\A app \in DOMAIN notifications :
                notifications[app].label \in {<<>>, <<48>>}) => law = <<>>

\* C13 witness: unknown.app "5" and mail.hobsons.com "2" were rendered as
\* "·5 σ2"
RenderingLawWitness ==
    /\ Rendered
    /\ DOMAIN notifications = {unknown_app, mail_hobsons_com}
    /\ notifications[unknown_app].label = <<53>>
    /\ notifications[mail_hobsons_com].label = <<50>>
    /\ notificationStatus = <<194, 183, 53, 32, 207, 131, 50>>

\* the step in which NotificationStatus returns
RenderStep == pubpc = "rendering" /\ pubpc' = "rendered"

\* C14 (rendering is a pure read): the step in which NotificationStatus
\* returns leaves the registry (keys, labels, update times), the last-written
\* marker and the status file as they were, and when no upsert and no eviction
\* came since the previous rendering it returns the string returned then.
RenderIsPureRead ==
    [][RenderStep =>
          /\ notifications' = notifications
          /\ lastNotificationStatus' = lastNotificationStatus
          /\ statusFile' = statusFile
          /\ (prevWrite # "none" /\ ~regChanged)
                => notificationStatus' = notificationStatus]_vars

\* C14 witness: a registry of two sources or more was rendered a second time,
\* untouched since the rendering that was written to the file
RenderIsPureReadWitness ==
    /\ pubpc = "rendered"
    /\ prevWrite = "written"
    /\ sameSnapshot
    /\ Cardinality(DOMAIN notifications) >= 2
    /\ notificationStatus # <<>>
    /\ statusFile = File(Fprintln(notificationStatus))

\* the goroutines inside a critical section of s.notificationLock
Holders ==
    {h \in Handlers : hpc[h] = "locked"}
        \cup (IF pubpc \in {"pruning", "rendering"} THEN {"publisher"} ELSE {})

\* C15 (atomicity of the registry operations): at most one of the upserts, the
\* rendering and the eviction is inside its critical section, and it is the
\* holder of the mutex; the registry changes only in the step that ends a
\* critical section, so the registry a rendering reads and the registry an
\* eviction decides on and deletes from is the registry of one instant.
MutualExclusion ==
    /\ [](/\ Cardinality(Holders) <= 1
          /\ Holders = IF notificationLock = "none" THEN {} ELSE {notificationLock})
    /\ [][/\ notificationLock' = notificationLock => notifications' = notifications
          /\ notifications' # notifications
                => notificationLock # "none" /\ notificationLock' = "none"
          /\ RenderStep
                => \E order \in MapOrders(DOMAIN notifications) :
                      notificationStatus' = NotificationStatus(notifications, order)
          /\ PruneStep
                => /\ defunctApps' = {app \in DOMAIN notifications :
                                        Stale(notifications[app], now)}
                   /\ notifications' = Delete(notifications, defunctApps')]_vars

\* C15 witness: the eviction holds the mutex over a registry with a stale
\* entry while one request has been answered and the next has not arrived
MutualExclusionWitness ==
    /\ pubpc = "pruning"
    /\ notificationLock = "publisher"
    /\ \E app \in DOMAIN notifications : Stale(notifications[app], now)
    /\ hpc["h1"] = "done"
    /\ hresp["h1"] = StatusOK
    /\ hpc["h2"] = "idle"

\* the step in which writeNotificationStatus compares the status and the marker
MarkStep == pubpc = "rendered" /\ pubpc' # "rendered"

\* C16 (marker updated before the write): when a write has failed the marker
\* is the status of that cycle, the failed attempt has left the canonical file
\* as it was, and as long as the rendered status equals the marker a cycle
\* skips the write, even though the file does not hold the marker's line.
MarkerKeptAfterFailure ==
    /\ [](curWrite = "failed" => lastNotificationStatus = notificationStatus)
    /\ [][/\ (curWrite = "attempt" /\ curWrite' # "written")
                => /\ statusFile' = statusFile
                   /\ lastNotificationStatus' = lastNotificationStatus
          /\ (/\ MarkStep
              /\ notificationStatus = lastNotificationStatus
              /\ statusFile # File(Fprintln(lastNotificationStatus)))
                => /\ curWrite' = "skipped"
                   /\ pubpc' = "sleep"
                   /\ UNCHANGED <<statusFile, tempFile, lastNotificationStatus>>]_vars

\* C16 witness: two cycles after the write of "σ3" failed, both skipped, the
\* marker is "σ3" and the canonical file has never been created
MarkerKeptAfterFailureWitness ==
    /\ prevWrite = "skipped"
    /\ curWrite = "skipped"
    /\ lastNotificationStatus = <<207, 131, 51>>
    /\ notificationStatus = lastNotificationStatus
    /\ statusFile = NoFile

\* C17 (change detection is by rendered value): the comparison of a cycle
\* starts a write exactly when the rendered status differs from the marker,
\* the files are touched only inside such an attempt, and a cycle whose
\* registry was written since the previous rendering but renders the marker's
\* status writes nothing.
WriteIffStatusDiffers ==
    [][/\ MarkStep
            => /\ curWrite' = "attempt" <=> notificationStatus # lastNotificationStatus
               /\ curWrite' = "skipped" <=> notificationStatus = lastNotificationStatus
               /\ pubpc' = "create" <=> notificationStatus # lastNotificationStatus
               /\ UNCHANGED <<statusFile, tempFile>>
       /\ (statusFile' # statusFile \/ tempFile' # tempFile) => curWrite = "attempt"
       /\ (curWrite = "skipped" /\ curWrite' # "none")
            => UNCHANGED <<statusFile, tempFile, lastNotificationStatus>>]_vars

\* C17 witness: "σ3" was written, a later request changed the registry (a
\* refreshed time or an invisible source), and the next cycle rendered "σ3"
\* again and skipped the write
WriteIffStatusDiffersWitness ==
    /\ curWrite = "skipped"
    /\ prevWrite = "written"
    /\ ~sameSnapshot
    /\ nreq = 2
    /\ notificationStatus = <<207, 131, 51>>
    /\ statusFile = File(Fprintln(<<207, 131, 51>>))

\* C18 (convergence of the file): with no file operation failing and the
\* publisher scheduled for ever, the canonical file comes to hold the rendering
\* of the registry followed by "\n" and stays so once the requests and the
\* clock have stopped; at the end of every cycle the file holds the marker
\* followed by "\n".
FileConverges ==
    /\ <>[](/\ statusFile.exists
            /\ statusFile.bytes = LawStatus(notifications) \o <<10>>)
    /\ [](pubpc = "sleep"
            => /\ statusFile.exists
               /\ statusFile.bytes = lastNotificationStatus \o <<10>>)

\* C18 witness: a second write has replaced the file, which holds the line of
\* the registry, "σ3"
FileConvergesWitness ==
    /\ pubpc = "sleep"
    /\ prevWrite = "written"
    /\ curWrite = "written"
    /\ hpc["h1"] = "idle"
    /\ DOMAIN notifications = {mail_hobsons_com}
    /\ notifications[mail_hobsons_com].label = <<51>>
    /\ statusFile = File(<<207, 131, 51, 10>>)

\* a record older than the max lifetime
Expired(app) ==
    /\ app \in DOMAIN notifications
    /\ now - notifications[app].updatedAt > notificationMaxLifetime

\* C19 (eventual expiry): a record older than the max lifetime is out of the
\* registry after the next pass of pruneStaleNotifications, so with the
\* publisher scheduled it is eventually removed (or refreshed by an upsert);
\* a cycle that ends with no upsert since its rendering leaves the file
\* holding exactly the fragments of the records still in the registry; and an
\* upsert for a source that is not in the registry creates its record with
\* the time of the upsert.
EventualExpiry ==
    /\ \A app \in {mail_hobsons_com, unknown_app} : Expired(app) ~> ~Expired(app)
    /\ [][/\ PruneStep
               => \A app \in DOMAIN notifications :
                     Expired(app) => app \notin DOMAIN notifications'
          /\ \A h \in Handlers :
               (/\ hpc[h] = "locked"
                /\ hpc'[h] = "done"
                /\ App(h) \notin DOMAIN notifications)
                  => notifications'[App(h)] = [label |-> Label(h), updatedAt |-> now]]_vars
    /\ []((pubpc = "sleep" /\ ~regChanged)
            => statusFile = File(LawStatus(notifications) \o <<10>>))

\* C19 witness: the only record has expired and was removed, and the cycle of
\* its removal has replaced the published fragment by the empty line
EventualExpiryWitness ==
    /\ pubpc = "sleep"
    /\ prevWrite = "skipped"
    /\ curWrite = "written"
    /\ nreq = 1
    /\ now = 45
    /\ notifications = <<>>
    /\ statusFile = File(<<10>>)

\* the step in which NewArgosNotificationServer returns
ConstructStep == mainpc = "new" /\ mainpc' = "constructed"

\* C20 (construction validates the configuration): NewArgosNotificationServer
\* returns "server port not set" when the port is 0 and "Argos home directory
\* not set" when the directory is empty, and then leaves the registry nil, the
\* marker empty and the host as given, and the program exits without starting
\* the publisher or serving a request; with both set it returns no error, an
\* empty registry, the sentinel as marker and "localhost" for an empty host.
ConstructionValidates ==
    /\ [][ConstructStep =>
            /\ server.Port = 0 => err' = "server port not set"
            /\ (server.Port # 0 /\ server.ArgosHome = "")
                  => err' = "Argos home directory not set"
            /\ (server.Port = 0 \/ server.ArgosHome = "")
                  => /\ nilMap'
                     /\ lastNotificationStatus' = <<>>
                     /\ server' = server
            /\ (server.Port # 0 /\ server.ArgosHome # "")
                  => /\ err' = ""
                     /\ ~nilMap'
                     /\ notifications' = <<>>
                     /\ lastNotificationStatus' = impossibleNotificationStatus
                     /\ server'.Host = IF server.Host = "" THEN "localhost"
                                                           ELSE server.Host
                     /\ server'.Port = server.Port
                     /\ server'.ArgosHome = server.ArgosHome]_vars
    /\ [](err # "" => /\ mainpc \in {"constructed", "exited"}
                      /\ pubpc = "unstarted"
                      /\ nreq = 0
                      /\ statusFile = NoFile)
    /\ [](mainpc \in {"listening", "serving"}
            => /\ err = ""
               /\ server.Port # 0
               /\ server.ArgosHome # ""
               /\ server.Host # "")

\* C20 witness: with a port and no base directory the program has exited on
\* "Argos home directory not set", the registry nil and the marker empty
ConstructionValidatesWitness ==
    /\ mainpc = "exited"
    /\ err = "Argos home directory not set"
    /\ server.Port = DefaultPort
    /\ server.Host = ""
    /\ nilMap
    /\ lastNotificationStatus = <<>>

====
